---- MODULE Spec2Model ----
(***************************************************************************)
(* Model of the sipgox media core: MediaSession (negotiation, remote       *)
(* address, port allocation, Close), RTPReader.Read, RTPWriter.Write, the  *)
(* extended sequence tracker and the DTMF (RFC 4733) codec.                *)
(***************************************************************************)
EXTENDS Integers, Sequences, FiniteSets, TLC

VARIABLES
    \* ---- MediaSession sockets (media.go:38-39) ----
    rtpConn,        \* "nil" | "open" | "closed"
    rtcpConn,       \* "nil" | "open" | "closed"
    nClose,         \* number of Close calls counted so far
    \* ---- RTPReader (rtp_reader.go:14-30) ----
    r,              \* the reader's fields
    rd_pc,          \* "idle" | "blocked" (inside Sess.ReadRTPRaw)
    rd_blen,        \* len(b) of the Read call in flight
    rdN,            \* count returned by the last Read
    rdErr,          \* error returned by the last Read
    rdSock,         \* what the last Read got from the socket: "none" | "data" | "closed" | "timeout"
    nReads,         \* number of Read calls that have returned
    delivered,      \* every byte returned to the caller so far, in order
    arrived,        \* payload bytes of the datagrams Read accepted, in order
    onRTPCalls,     \* number of OnRTP invocations of the reader
    rdWarn,         \* the warnings the last Read logged
    rdDg,           \* the datagram the last Read got from the socket, or NoDatagram
    \* ---- RTPWriter (rtp_writer: unnamed/part_001:14-32) ----
    w,              \* the writer's fields
    wInit,          \* the sequencer's value when the writer was constructed
    wN,             \* count returned by the last Write / WriteSamples
    wErr,           \* error returned by the last Write / WriteSamples
    sent,           \* the packets built so far, in order, with the call that built each
    wire,           \* the packets the socket accepted whole, in order
    wOnRTP,         \* number of OnRTP invocations of the writer
    wCall,          \* the last Write / WriteSamples call: its arguments, what its
                    \* OnRTP invocation found, its socket writes and their outcome
    \* ---- MediaSession negotiation state (media.go:31-48) ----
    Formats,        \* s.Formats
    Raddr,          \* s.Raddr: NilAddr or [ip, port]
    rtcpRaddr,      \* s.rtcpRaddr: NilAddr or [ip, port]
    sOp,            \* the last call on the session
    sErr,           \* what it returned
    sLocal,         \* s.Formats when it was called
    sRemote,        \* the format list of the SDP it was given
    sCalls,         \* number of RemoteSDP / UpdateDestinationSDP calls so far
    \* ---- port allocation (media.go:20-28, 140-198) ----
    portRange,      \* <<RTPPortStart, RTPPortEnd>> as configured; <<0, 0>> when unset
    rtpPortOffset,  \* the process-wide rotating offset
    sess,           \* the sessions under construction, open or closed
    ext,            \* ports held by other processes
    \* ---- RTPExtendedSequenceNumber on its own ----
    trk,            \* the tracker
    trkRaw,          \* the raw values given to it since InitSeq, InitSeq's first
    trkExt,         \* ReadExtendedSeq after each of them
    \* ---- DTMF codec (media.go:482-573) ----
    dOp,            \* the last call: "none" | "RTPDTMFEncode" | "DTMFEncode" | "DTMFDecode" | "receive"
    dChar,          \* the rune RTPDTMFEncode was last given
    dEvents,        \* what it returned
    dEv,            \* the event DTMFEncode was last given
    dPayload,       \* the payload at hand: DTMFEncode's result, or one received
    dFrom,          \* where it came from: "none" | "DTMFEncode" | "wire"
    dDec,           \* the DTMFEvent DTMFDecode fills
    dErr            \* the error DTMFDecode returned

connVars == <<rtpConn, rtcpConn>>
rdVars == <<r, rd_pc, rd_blen, rdN, rdErr, rdSock, nReads, delivered, arrived, onRTPCalls,
           rdWarn, rdDg>>
wrVars == <<w, wInit, wN, wErr, sent, wire, wOnRTP, wCall>>

sVars == <<Formats, Raddr, rtcpRaddr, sOp, sErr, sLocal, sRemote, sCalls>>

pVars == <<portRange, rtpPortOffset, sess, ext>>

tVars == <<trk, trkRaw, trkExt>>

cVars == <<nClose>>

dVars == <<dOp, dChar, dEvents, dEv, dPayload, dFrom, dDec, dErr>>

xVars == <<tVars, cVars, dVars>>

vars == <<connVars, rdVars, wrVars, sVars, pVars, xVars>>

\* ------------------------------------------------------------------ bounds
MaxReads == 3
MaxPayload == 2
MaxWrites == 3
MaxFmts == 2
MaxNegotiations == 2
RangeStart == 10
RangeEnd == 14
NSess == 2
MaxExt == 1
MaxUpdates == 3
MaxCloses == 2

\* ------------------------------------------------------------- constants
HeaderLen == 12
SeqMod == 2^16

\* A uint32 is kept as its two 16-bit halves <<high, low>>; the sum is taken
\* modulo 2^32, as Go's uint32 addition does.
U32(n) == <<n \div SeqMod, n % SeqMod>>
U32Add(a, b) ==
    LET lo == a[2] + b[2]
    IN  <<(a[1] + b[1] + lo \div SeqMod) % SeqMod, lo % SeqMod>>
U32Zero == <<0, 0>>
\* 2^31, half the timestamp space
U32Half == <<SeqMod \div 2, 0>>

Min(a, b) == IF a < b THEN a ELSE b

RECURSIVE SeqsUpTo(_, _)
\* every sequence over S of length 0..n
SeqsUpTo(S, n) ==
    IF n = 0 THEN {<<>>}
    ELSE LET prev == SeqsUpTo(S, n - 1)
         IN  prev \cup {Append(q, x) : q \in {p \in prev : Len(p) = n - 1}, x \in S}

\* --------------------------------------------------------- error values
ErrNil == "nil"
ErrEOF == "io.EOF"
ErrClosed == "net.ErrClosed"
ErrTimeout == "i/o timeout"
ErrUnmarshal == "rtp: header size insufficient"
ErrPayloadType == "payload type does not match"

\* ------------------------------------------- RTPExtendedSequenceNumber
\* The tracker's state: last raw sequence number and the count of wraps.
SeqZero == [seqNum |-> 0, wrapArroundCount |-> 0]

InitSeq(sn, seq) == [seqNum |-> seq, wrapArroundCount |-> 0]

\* Update: a raw value more than half the space below the last one is a forward
\* wrap; one more than half the space above it is a regression, reported with
\* the state kept; anything else becomes the last-seen value.
UpdateSeq(sn, seq) ==
    IF seq < sn.seqNum /\ sn.seqNum - seq > SeqMod \div 2
    THEN [sn  |-> [seqNum |-> seq, wrapArroundCount |-> sn.wrapArroundCount + 1],
          err |-> ErrNil]
    ELSE IF seq > sn.seqNum /\ seq - sn.seqNum > SeqMod \div 2
    THEN [sn |-> sn, err |-> "SequenceRegression"]
    ELSE [sn |-> [sn EXCEPT !.seqNum = seq], err |-> ErrNil]

ReadExtendedSeq(sn) == sn.wrapArroundCount * SeqMod + sn.seqNum

\* -------------------------------------------------- MediaSession: SDP
Nil == "nil"
FORMAT_TYPE_ULAW == "0"
FORMAT_TYPE_ALAW == "8"
ErrParseSDP == "fail to parse received SDP"
ErrNoCommonFormat == "NoCommonFormat"
ErrPanic == "panic: nil pointer dereference"

UDPAddr(ip, port) == [ip |-> ip, port |-> port]
\* a nil *net.UDPAddr
NilAddr == [ip |-> Nil, port |-> 0]

\* cr once for every entry of the local list equal to it (media.go:118-122)
RECURSIVE MatchLocal(_, _)
MatchLocal(cr, local) ==
    IF local = <<>> THEN <<>>
    ELSE (IF Head(local) = cr THEN <<cr>> ELSE <<>>) \o MatchLocal(cr, Tail(local))

\* the loop over the remote formats (media.go:117-123)
RECURSIVE FilterFormats(_, _)
FilterFormats(remote, local) ==
    IF remote = <<>> THEN <<>>
    ELSE MatchLocal(Head(remote), local) \o FilterFormats(Tail(remote), local)

\* MediaSession.updateFormats (media.go:112-137): the new s.Formats.
updateFormats(local, formats) ==
    IF Len(local) > 0 THEN FilterFormats(formats, local) ELSE formats

\* MediaSession.SetRemoteAddr (media.go:74-79): the new <<Raddr, rtcpRaddr>>.
SetRemoteAddr(raddr) == <<raddr, UDPAddr(raddr.ip, raddr.port + 1)>>

\* NewMediaSession (media.go:50-58): the formats offered locally.
LocalFormats == <<FORMAT_TYPE_ULAW, FORMAT_TYPE_ALAW>>

SessInit ==
    /\ Formats = LocalFormats
    /\ Raddr = NilAddr
    /\ rtcpRaddr = NilAddr
    /\ sOp = "NewMediaSession"
    /\ sErr = ErrNil
    /\ sLocal = <<>>
    /\ sRemote = <<>>
    /\ sCalls = 0

\* ------------------------------------------- MediaSession: listeners
ErrBind == "bind: address already in use"
ErrNoPorts == "No available ports in range"

\* A session object before NewMediaSession has run on it.
SessionZero ==
    [pc |-> "none", hint |-> 0, port |-> 0, retries |-> 0, err |-> ErrNil,
     rtpConn |-> "nil", rtcpConn |-> "nil", rtpPort |-> 0, rtcpPort |-> 0,
     Laddr |-> 0, cand |-> 0]

\* The ports the sessions in ss hold open.
Held(ss) ==
    {ss[i].rtpPort : i \in {j \in DOMAIN ss : ss[j].rtpConn = "open"}}
        \cup {ss[i].rtcpPort : i \in {j \in DOMAIN ss : ss[j].rtcpConn = "open"}}

\* Mutant: s.Laddr keeps the hint's port.
listenRTPandRTCP_KeepHint(se, inuse, port) ==
    IF port = 0 \/ port \in inuse
    THEN [se EXCEPT !.rtpConn = "nil", !.rtpPort = 0, !.err = ErrBind]
    ELSE IF (port + 1) \in inuse
    THEN [se EXCEPT !.rtpConn = "closed", !.rtpPort = port, !.err = ErrBind]
    ELSE [se EXCEPT !.rtpConn = "open", !.rtpPort = port,
                    !.rtcpConn = "open", !.rtcpPort = port + 1,
                    !.Laddr = se.hint, !.err = ErrNil]

\* MediaSession.listenRTPandRTCP (media.go:181-198) with the RTP socket bound
\* at port, or refused when port is 0: the session afterwards.
listenRTPandRTCP(se, inuse, port) ==
    IF port = 0 \/ port \in inuse
    THEN [se EXCEPT !.rtpConn = "nil", !.rtpPort = 0, !.err = ErrBind]
    ELSE IF (port + 1) \in inuse
    THEN [se EXCEPT !.rtpConn = "closed", !.rtpPort = port, !.err = ErrBind]
    ELSE [se EXCEPT !.rtpConn = "open", !.rtpPort = port,
                    !.rtcpConn = "open", !.rtcpPort = port + 1,
                    !.Laddr = port, !.err = ErrNil]

\* Mutant: the offset is stored without the reduction modulo the range's size.
NextOffset_NoModulo(port, range) == port + 2 - range[1]

\* The offset stored after a ranged allocation at port (media.go:162).
NextOffset(port, range) == (port + 2 - range[1]) % (range[2] - range[1])

\* "laddr.Port == 0 && RTPPortStart > 0 && RTPPortEnd > RTPPortStart" (media.go:147)
Ranged(range) == range[1] > 0 /\ range[2] > range[1]

\* ------------------------------------------------------------ datagrams
\* An RTP datagram on the wire: the fixed 12-byte header and the payload.
Datagram(pt, seq, ssrc, payload) ==
    [pt |-> pt, seq |-> seq, ssrc |-> ssrc, payload |-> payload]

WireLen(dg) == HeaderLen + Len(dg.payload)

HeaderZero == [pt |-> 0, seq |-> 0, ssrc |-> 0]

\* what a Read that got no datagram from the socket is recorded with
NoDatagram == Datagram(0, 0, 0, <<>>)

\* ------------------------------------------------------------ RTPReader
\* NewRTPReader: payload type of Formats[0], nothing pending, no source seen.
NewRTPReader(payloadType) ==
    [PacketHeader  |-> HeaderZero,
     PayloadType   |-> payloadType,
     Seq           |-> SeqZero,
     unreadPayload |-> <<>>,
     unread        |-> 0,
     lastSSRC      |-> 0]

\* readPayload: copy(b, payload); what does not fit is kept for the next call.
readPayload(rd, blen, payload) ==
    LET n == Min(blen, Len(payload))
    IN  [r   |-> IF n < Len(payload)
                 THEN [rd EXCEPT !.unreadPayload = SubSeq(payload, n + 1, Len(payload)),
                                 !.unread = Len(payload) - n]
                 ELSE [rd EXCEPT !.unread = 0],
         n   |-> n,
         err |-> ErrNil,
         out |-> SubSeq(payload, 1, n),
         onrtp |-> 0,
         warn |-> {}]

\* MediaSession.ReadRTPRaw on a datagram: rtpConn.ReadFrom fills b with at most
\* len(b) bytes of the datagram; the rest of the datagram is discarded.
ReadRTPRaw(blen, dg) == Min(blen, WireLen(dg))

\* rtp.Packet.Unmarshal(b[:n]): fails on less than a header, else the payload
\* is what follows the header inside b[:n].
UnmarshalOK(n) == n >= HeaderLen
UnmarshalPayload(n, dg) == SubSeq(dg.payload, 1, n - HeaderLen)

\* Sequence tracking of Read (rtp_reader.go:87-100).
TrackSeq(rd, dg) ==
    IF rd.lastSSRC = dg.ssrc
    THEN UpdateSeq(rd.Seq, dg.seq).sn
    ELSE InitSeq(rd.Seq, dg.seq)

WarnOutOfOrder == "Out of order pkt received"

\* Mutant: a packet is in order when the extended value did not move.
OutOfOrder_Unmoved(prevSeq, newSeq) == prevSeq # newSeq

\* "prevSeq+1 != newSeq" (rtp_reader.go:95)
OutOfOrder(prevSeq, newSeq) == prevSeq + 1 # newSeq

\* Mutant: a packet of another source is checked against the tracked sequence.
TrackWarn_AnySource(rd, dg) ==
    (IF UpdateSeq(rd.Seq, dg.seq).err # ErrNil
     THEN {UpdateSeq(rd.Seq, dg.seq).err} ELSE {})
        \cup (IF OutOfOrder(ReadExtendedSeq(rd.Seq),
                            ReadExtendedSeq(UpdateSeq(rd.Seq, dg.seq).sn))
              THEN {WarnOutOfOrder} ELSE {})

\* The warnings Read logs while tracking (rtp_reader.go:88-100): the tracker's
\* error, and the out-of-order message; none for a packet of another source.
TrackWarn(rd, dg) ==
    IF rd.lastSSRC = dg.ssrc
    THEN (IF UpdateSeq(rd.Seq, dg.seq).err # ErrNil
          THEN {UpdateSeq(rd.Seq, dg.seq).err} ELSE {})
            \cup (IF OutOfOrder(ReadExtendedSeq(rd.Seq),
                                ReadExtendedSeq(UpdateSeq(rd.Seq, dg.seq).sn))
                  THEN {WarnOutOfOrder} ELSE {})
    ELSE {}

\* Mutant: the source is tracked before the payload type is checked.
ReadPacket_TrackBeforeCheck(rd, blen, dg) ==
    LET n == ReadRTPRaw(blen, dg)
        rd2 == [rd EXCEPT !.Seq = TrackSeq(rd, dg),
                          !.lastSSRC = dg.ssrc,
                          !.PacketHeader = [pt |-> dg.pt, seq |-> dg.seq, ssrc |-> dg.ssrc]]
    IN  IF ~UnmarshalOK(n)
        THEN [r |-> rd, n |-> 0, err |-> ErrUnmarshal, out |-> <<>>, onrtp |-> 0,
              warn |-> {}]
        ELSE IF rd.PayloadType # dg.pt
        THEN [r |-> rd2, n |-> 0, err |-> ErrPayloadType, out |-> <<>>, onrtp |-> 0,
              warn |-> TrackWarn(rd, dg)]
        ELSE [readPayload(rd2, blen, UnmarshalPayload(n, dg))
                 EXCEPT !.onrtp = 1, !.warn = TrackWarn(rd, dg)]

\* Mutant: a warning of the sequence tracking ends the Read with an error.
ReadPacket_FailOnAnomaly(rd, blen, dg) ==
    LET n == ReadRTPRaw(blen, dg)
        fail(e) == [r |-> rd, n |-> 0, err |-> e, out |-> <<>>, onrtp |-> 0, warn |-> {}]
    IN  IF ~UnmarshalOK(n) THEN fail(ErrUnmarshal)
        ELSE IF rd.PayloadType # dg.pt THEN fail(ErrPayloadType)
        ELSE IF TrackWarn(rd, dg) # {} THEN fail(WarnOutOfOrder)
        ELSE LET rd2 == [rd EXCEPT !.Seq = TrackSeq(rd, dg),
                                   !.lastSSRC = dg.ssrc,
                                   !.PacketHeader = [pt |-> dg.pt, seq |-> dg.seq,
                                                     ssrc |-> dg.ssrc]]
                 res == readPayload(rd2, blen, UnmarshalPayload(n, dg))
             IN  [res EXCEPT !.onrtp = 1]

\* Read after the socket handed over datagram dg (rtp_reader.go:76-106).
ReadPacket(rd, blen, dg) ==
    LET n == ReadRTPRaw(blen, dg)
        fail(e) == [r |-> rd, n |-> 0, err |-> e, out |-> <<>>, onrtp |-> 0, warn |-> {}]
    IN  IF ~UnmarshalOK(n) THEN fail(ErrUnmarshal)
        ELSE IF rd.PayloadType # dg.pt THEN fail(ErrPayloadType)
        ELSE LET rd2 == [rd EXCEPT !.Seq = TrackSeq(rd, dg),
                                   !.lastSSRC = dg.ssrc,
                                   !.PacketHeader = [pt |-> dg.pt, seq |-> dg.seq,
                                                     ssrc |-> dg.ssrc]]
                 res == readPayload(rd2, blen, UnmarshalPayload(n, dg))
             IN  [res EXCEPT !.onrtp = 1, !.warn = TrackWarn(rd, dg)]

\* Mutant: the socket's error is passed on as it is.
ReadError_PassThrough(e) == e

\* The error Read returns for a socket error (rtp_reader.go:69-75).
ReadError(e) == IF e = ErrClosed THEN ErrEOF ELSE e

\* ------------------------------------------------------------ RTPWriter
ErrShortWrite == "io.ErrShortWrite"
ErrWrite == "write error"

\* NextSeqNumber: the current cursor is handed out, then it advances by one,
\* wrapping modulo 2^16.
NextSeqNumber(sn) ==
    [val |-> sn.seqNum, sn |-> [sn EXCEPT !.seqNum = (sn.seqNum + 1) % SeqMod]]

\* NewRTPSequencer: a tracker started at a random 16-bit value.
NewRTPSequencer(seq0) == InitSeq(SeqZero, seq0)

PacketZero == [marker |-> FALSE, pt |-> 0, ts |-> U32Zero, seq |-> 0, ssrc |-> 0, payload |-> <<>>]

\* updateClockRate: ClockRateTimestamp = SampleRate * clockRate seconds.
updateClockRate(sampleRate, clockRateMs) == U32((sampleRate * clockRateMs) \div 1000)

\* NewRTPWriter (unnamed/part_001:42-70).
NewRTPWriter(payloadType, seq0, ssrc) ==
    [seq                |-> NewRTPSequencer(seq0),
     PayloadType        |-> payloadType,
     SSRC               |-> ssrc,
     SampleRate         |-> 8000,
     ClockRateTimestamp |-> updateClockRate(8000, 20),
     nextTimestamp      |-> U32Zero,
     LastPacket         |-> PacketZero,
     OnRTP              |-> Nil]

\* Mutant: a short write is taken for a complete one.
WriteRTP_ShortIsOk(outcome) ==
    CASE outcome = "ok"    -> ErrNil
      [] outcome = "err"   -> ErrWrite
      [] outcome = "short" -> ErrNil

\* MediaSession.WriteRTP (media.go:391-410) for the socket's outcome.
WriteRTP(outcome) ==
    CASE outcome = "ok"    -> ErrNil
      [] outcome = "err"   -> ErrWrite
      [] outcome = "short" -> ErrShortWrite

\* The packet WriteSamples builds (unnamed/part_001:96-112).
BuildPacket(wr, payload, marker, payloadType) ==
    [marker |-> marker, pt |-> payloadType, ts |-> wr.nextTimestamp,
     seq |-> NextSeqNumber(wr.seq).val, ssrc |-> wr.SSRC, payload |-> payload]

\* Mutant: the timestamp cursor advances by one tick instead of clockRateTimestamp.
WriteSamplesState_TickByOne(wr, payload, clockRateTimestamp, marker, payloadType) ==
    [wr EXCEPT !.seq = NextSeqNumber(wr.seq).sn,
               !.LastPacket = BuildPacket(wr, payload, marker, payloadType),
               !.nextTimestamp = U32Add(wr.nextTimestamp, U32(1))]

\* The writer after WriteSamples (unnamed/part_001:95-123).
WriteSamplesState(wr, payload, clockRateTimestamp, marker, payloadType) ==
    [wr EXCEPT !.seq = NextSeqNumber(wr.seq).sn,
               !.LastPacket = BuildPacket(wr, payload, marker, payloadType),
               !.nextTimestamp = U32Add(wr.nextTimestamp, clockRateTimestamp)]

\* The marker the convenience Write passes on (unnamed/part_001:90).
WriteMarker(wr) == wr.nextTimestamp = U32Zero

\* -------------------------------------------------------- writer actions
WriterPayloads == {<<>>, <<1>>}
WriterSeq0 == {0, SeqMod - 2, SeqMod - 1}
\* ClockRateTimestamp is a public field: the default, or a value set by the
\* caller after construction.
WriterClockRates == {updateClockRate(8000, 20), U32Half}
WriterTicks == {U32Zero, U32(160)}
WriterSSRC == 9
\* OnRTP is a public field, nil unless the caller sets it.
WriterOnRTP == {Nil, "set"}

\* before any call
NoCall ==
    [payload |-> <<>>, clockRateTimestamp |-> U32Zero, marker |-> FALSE,
     outcome |-> "none", onRTP |-> <<>>, writes |-> 0]

\* What the OnRTP callback is invoked with and can find at that point
\* (unnamed/part_001:114-116): the packet built, and a writer whose LastPacket
\* and nextTimestamp are not yet updated and whose packet is not yet on the wire.
OnRTPView(wr, pkt, onWire) ==
    [pkt |-> pkt, LastPacket |-> wr.LastPacket, nextTimestamp |-> wr.nextTimestamp,
     wire |-> onWire]

WrIdle ==
    /\ w = NewRTPWriter(0, 0, WriterSSRC)
    /\ wInit = 0
    /\ wN = 0
    /\ wErr = ErrNil
    /\ sent = <<>>
    /\ wire = <<>>
    /\ wOnRTP = 0
    /\ wCall = NoCall

WrInit ==
    /\ rtpConn = "open"
    /\ rtcpConn = "open"
    /\ \E s0 \in WriterSeq0, c \in WriterClockRates, cb \in WriterOnRTP :
          /\ w = [NewRTPWriter(0, s0, WriterSSRC) EXCEPT !.ClockRateTimestamp = c,
                                                         !.OnRTP = cb]
          /\ wInit = s0
    /\ wN = 0
    /\ wErr = ErrNil
    /\ sent = <<>>
    /\ wire = <<>>
    /\ wOnRTP = 0
    /\ wCall = NoCall

\* What the socket may do with a datagram: a closed socket only fails.
WriteOutcomes == IF rtpConn = "open" THEN {"ok", "err", "short"} ELSE {"err"}

\* WriteSamples(payload, clockRateTimestamp, marker, payloadType), called
\* directly or by Write (via).
DoWriteSamples(via, payload, clockRateTimestamp, marker, payloadType, outcome) ==
    LET pkt == BuildPacket(w, payload, marker, payloadType)
    IN  /\ Len(sent) < MaxWrites
        /\ w' = WriteSamplesState(w, payload, clockRateTimestamp, marker, payloadType)
        /\ wOnRTP' = IF w.OnRTP # Nil THEN wOnRTP + 1 ELSE wOnRTP
        /\ wCall' = [payload |-> payload, clockRateTimestamp |-> clockRateTimestamp,
                     marker |-> marker, outcome |-> outcome,
                     onRTP |-> IF w.OnRTP # Nil
                               THEN <<OnRTPView(w, pkt, Len(wire))>> ELSE <<>>,
                     writes |-> 1]
        /\ sent' = Append(sent, [seq |-> pkt.seq, ts |-> pkt.ts, marker |-> pkt.marker,
                                 via |-> via])
        /\ wire' = IF outcome = "ok" THEN Append(wire, pkt.seq) ELSE wire
        /\ wN' = Len(payload)
        /\ wErr' = WriteRTP(outcome)
        /\ UNCHANGED <<wInit, connVars, rdVars, sVars, pVars, xVars>>

\* RTPWriter.WriteSamples called by the application.
WriteSamples(payload, clockRateTimestamp, marker, outcome) ==
    DoWriteSamples("WriteSamples", payload, clockRateTimestamp, marker, w.PayloadType, outcome)

\* RTPWriter.Write (unnamed/part_001:89-93): WriteSamples with the configured
\* clock delta, then the wait for the pacing tick.
Write(payload, outcome) ==
    DoWriteSamples("Write", payload, w.ClockRateTimestamp, WriteMarker(w), w.PayloadType, outcome)

\* -------------------------------------------------------- reader actions
PayloadTypes == {0, 8}
ReaderSSRCs == {1, 2}
ReaderSeqs == {7}
\* payloads of 0..MaxPayload bytes, the i-th byte being i
Payloads == {[i \in 1..n |-> i] : n \in 0..MaxPayload}
ReaderDatagrams ==
    {Datagram(pt, sq, ss, pl) : pt \in PayloadTypes, sq \in ReaderSeqs,
                                ss \in ReaderSSRCs, pl \in Payloads}
\* len(b) of the caller: below a header, a bare header, one byte short of the
\* largest datagram, the largest datagram.
BufLens == {MaxPayload, HeaderLen, HeaderLen + MaxPayload - 1, HeaderLen + MaxPayload}

RdInit ==
    /\ rtpConn = "open"
    /\ rtcpConn = "open"
    /\ r \in {NewRTPReader(pt) : pt \in PayloadTypes}
    /\ rd_pc = "idle"
    /\ rd_blen = 0
    /\ rdN = 0
    /\ rdErr = ErrNil
    /\ rdSock = "none"
    /\ nReads = 0
    /\ delivered = <<>>
    /\ arrived = <<>>
    /\ onRTPCalls = 0
    /\ rdWarn = {}
    /\ rdDg = NoDatagram

\* A Read call returns with result res.
ReadDone(res, sock, dg) ==
    /\ rdWarn' = res.warn
    /\ rdDg' = dg
    /\ r' = res.r
    /\ rdN' = res.n
    /\ rdErr' = res.err
    /\ rdSock' = sock
    /\ nReads' = nReads + 1
    /\ delivered' = delivered \o res.out
    /\ onRTPCalls' = onRTPCalls + res.onrtp
    /\ rd_pc' = "idle"
    /\ rd_blen' = 0

\* Read(b) up to the socket read: pending bytes are served at once
\* (rtp_reader.go:62-65), else the call enters Sess.ReadRTPRaw.
ReadCall(blen) ==
    /\ rd_pc = "idle"
    /\ nReads < MaxReads
    /\ IF r.unread > 0
       THEN /\ ReadDone(readPayload(r, blen, r.unreadPayload), "none", NoDatagram)
            /\ UNCHANGED arrived
       ELSE /\ rd_pc' = "blocked"
            /\ rd_blen' = blen
            /\ UNCHANGED <<r, rdN, rdErr, rdSock, nReads, delivered, arrived, onRTPCalls,
                           rdWarn, rdDg>>
    /\ UNCHANGED <<connVars, wrVars, xVars, sVars, pVars>>

\* The socket read returns datagram dg (rtp_reader.go:68, 76-106).
ReadReturnData(dg) ==
    /\ rd_pc = "blocked"
    /\ rtpConn = "open"
    /\ ReadDone(ReadPacket(r, rd_blen, dg), "data", dg)
    /\ arrived' = IF ReadPacket(r, rd_blen, dg).err = ErrNil
                  THEN arrived \o dg.payload ELSE arrived
    /\ UNCHANGED <<connVars, wrVars, xVars, sVars, pVars>>

\* The socket read fails with socket error e (rtp_reader.go:69-75).
ReadFail(e) ==
    /\ ReadDone([r |-> r, n |-> 0, err |-> ReadError(e), out |-> <<>>, onrtp |-> 0,
                 warn |-> {}],
                IF e = ErrClosed THEN "closed" ELSE "timeout", NoDatagram)
    /\ UNCHANGED <<connVars, wrVars, xVars, sVars, pVars, arrived>>

\* The session's socket was closed: ReadFrom returns net.ErrClosed.
ReadReturnClosed ==
    /\ rd_pc = "blocked"
    /\ rtpConn = "closed"
    /\ ReadFail(ErrClosed)

\* A read deadline set on the socket expires.
ReadReturnTimeout ==
    /\ rd_pc = "blocked"
    /\ rtpConn = "open"
    /\ ReadFail(ErrTimeout)

\* Mutant: the socket is closed without the nil check.
Close_NoNilCheck(conn) == IF conn # "nil" THEN "closed" ELSE ErrPanic

\* MediaSession.Close (media.go:246-254).
Close(conn) == IF conn # "nil" THEN "closed" ELSE conn

SessClose ==
    /\ rtcpConn' = Close(rtcpConn)
    /\ rtpConn' = Close(rtpConn)
    /\ UNCHANGED <<rdVars, wrVars, xVars, sVars, pVars>>

\* MediaSession.Close (media.go:246-254), the calls being counted.
CloseCall ==
    /\ nClose < MaxCloses
    /\ nClose' = nClose + 1
    /\ rtcpConn' = Close(rtcpConn)
    /\ rtpConn' = Close(rtpConn)
    /\ UNCHANGED <<rdVars, wrVars, sVars, pVars, tVars, dVars>>

NextReader ==
    \/ \E blen \in BufLens : ReadCall(blen)
    \/ \E dg \in ReaderDatagrams : ReadReturnData(dg)
    \/ ReadReturnClosed
    \/ ReadReturnTimeout
    \/ SessClose

\* The reader fed with packets whose sequence numbers and sources vary, read
\* into a buffer that holds a whole datagram.
SeqRaws == {0, 1, 2, SeqMod \div 2 + 1, SeqMod - 2, SeqMod - 1}
SeqSSRCs == {0, 1, 2}
SeqDatagrams ==
    {Datagram(pt, sq, ss, <<1>>) : pt \in PayloadTypes, sq \in SeqRaws, ss \in SeqSSRCs}

NextReaderSeq ==
    \/ ReadCall(HeaderLen + MaxPayload)
    \/ \E dg \in SeqDatagrams : ReadReturnData(dg)

\* ------------------------------------------------------ tracker actions
TrackerIdle ==
    /\ trk = SeqZero
    /\ trkRaw = <<>>
    /\ trkExt = <<>>

\* sn.InitSeq(seq), then ReadExtendedSeq
TrackerInitSeq(seq) ==
    /\ trk' = InitSeq(trk, seq)
    /\ trkRaw' = <<seq>>
    /\ trkExt' = <<ReadExtendedSeq(InitSeq(trk, seq))>>
    /\ UNCHANGED <<connVars, rdVars, wrVars, sVars, pVars, cVars, dVars>>

\* sn.UpdateSeq(seq), then ReadExtendedSeq
TrackerUpdateSeq(seq) ==
    /\ Len(trkRaw) >= 1
    /\ Len(trkRaw) <= MaxUpdates
    /\ trk' = UpdateSeq(trk, seq).sn
    /\ trkRaw' = Append(trkRaw, seq)
    /\ trkExt' = Append(trkExt, ReadExtendedSeq(UpdateSeq(trk, seq).sn))
    /\ UNCHANGED <<connVars, rdVars, wrVars, sVars, pVars, cVars, dVars>>

NextTracker ==
    \/ \E seq \in SeqRaws : TrackerInitSeq(seq)
    \/ \E seq \in SeqRaws : TrackerUpdateSeq(seq)

WriterClose == SessClose

\* ----------------------------------------------------------- DTMF codec
\* dtmfEventMapping (media.go:482-499)
dtmfEventMapping ==
    ("0" :> 0) @@ ("1" :> 1) @@ ("2" :> 2) @@ ("3" :> 3) @@ ("4" :> 4) @@
    ("5" :> 5) @@ ("6" :> 6) @@ ("7" :> 7) @@ ("8" :> 8) @@ ("9" :> 9) @@
    ("*" :> 10) @@ ("#" :> 11) @@
    ("A" :> 12) @@ ("B" :> 13) @@ ("C" :> 14) @@ ("D" :> 15)

\* m[k] of a Go map: the zero value for a key the map does not hold
MapIndex(m, k) == IF k \in DOMAIN m THEN m[k] ELSE 0

DTMFEvent(event, endOfEvent, volume, duration) ==
    [Event |-> event, EndOfEvent |-> endOfEvent, Volume |-> volume, Duration |-> duration]

DTMFEventZero == DTMFEvent(0, FALSE, 0, 0)

\* Mutant: the end events go on counting the duration up.
RTPDTMFEncode_EndGrows(char) ==
    LET event == MapIndex(dtmfEventMapping, char)
    IN  [i \in 1..7 |->
            IF i <= 4 THEN DTMFEvent(event, FALSE, 10, (160 * i) % SeqMod)
            ELSE DTMFEvent(event, TRUE, 10, (160 * i) % SeqMod)]

\* RTPDTMFEncode (media.go:503-530): events[0..3] in progress, events[4..6] the
\* end; it has no error result.
RTPDTMFEncode(char) ==
    LET event == MapIndex(dtmfEventMapping, char)
    IN  [i \in 1..7 |->
            IF i <= 4 THEN DTMFEvent(event, FALSE, 10, (160 * i) % SeqMod)
            ELSE DTMFEvent(event, TRUE, 10, 160 * 5)]

ErrPayloadTooShort == "payload too short"

\* Mutant: the duration is read low byte first.
DTMFDecode_LittleEndian(payload, d) ==
    IF Len(payload) < 4 THEN [d |-> d, err |-> ErrPayloadTooShort]
    ELSE [d |-> DTMFEvent(payload[1], payload[2] >= 128, payload[2] % 128,
                          payload[4] * 256 + payload[3]),
          err |-> ErrNil]

\* DTMFDecode (media.go:550-561): payload[1]&0x80 is the end flag, payload[1]&0x7F
\* the volume, payload[2:4] the duration, big-endian.
DTMFDecode(payload, d) ==
    IF Len(payload) < 4 THEN [d |-> d, err |-> ErrPayloadTooShort]
    ELSE [d |-> DTMFEvent(payload[1], payload[2] >= 128, payload[2] % 128,
                          payload[3] * 256 + payload[4]),
          err |-> ErrNil]

\* DTMFEncode (media.go:563-573): 0x80 for the end flag, or-ed with Volume&0x3F.
DTMFEncode(d) ==
    <<d.Event,
      (IF d.EndOfEvent THEN 128 ELSE 0) + (d.Volume % 64),
      d.Duration \div 256,
      d.Duration % 256>>

\* ---------------------------------------------------------- DTMF actions
\* runes of the table and runes outside of it
DTMFChars == DOMAIN dtmfEventMapping \cup {"E", "a", "x"}
\* field values of DTMFEvent: uint8, bool, uint8, uint16
DTMFEventCodes == 0..15 \cup {16, 255}
DTMFVolumes == {0, 10, 63, 64, 127}
DTMFDurations == {0, 160, 800, SeqMod - 1}
DTMFEvents ==
    {DTMFEvent(e, f, v, t) : e \in DTMFEventCodes, f \in BOOLEAN,
                             v \in DTMFVolumes, t \in DTMFDurations}
\* payloads from the network: empty, one byte short, reserved bit set
DTMFWirePayloads == {<<>>, <<5, 10, 0>>, <<5, 74, 0, 160>>}

DTMFIdle ==
    /\ dOp = "none"
    /\ dChar = ""
    /\ dEvents = <<>>
    /\ dEv = DTMFEventZero
    /\ dPayload = <<>>
    /\ dFrom = "none"
    /\ dDec = DTMFEventZero
    /\ dErr = ErrNil

\* Each call works on values of its own: what the calls before it were given
\* and returned is dropped, except the payload a DTMFDecode is about to read.
\* events := RTPDTMFEncode(char)
CallRTPDTMFEncode(char) ==
    /\ dOp' = "RTPDTMFEncode"
    /\ dChar' = char
    /\ dEvents' = RTPDTMFEncode(char)
    /\ dEv' = DTMFEventZero
    /\ dPayload' = <<>>
    /\ dFrom' = "none"
    /\ dDec' = DTMFEventZero
    /\ dErr' = ErrNil
    /\ UNCHANGED <<connVars, rdVars, wrVars, sVars, pVars, tVars, cVars>>

\* payload := DTMFEncode(d)
CallDTMFEncode(d) ==
    /\ dOp' = "DTMFEncode"
    /\ dEv' = d
    /\ dPayload' = DTMFEncode(d)
    /\ dFrom' = "DTMFEncode"
    /\ dChar' = ""
    /\ dEvents' = <<>>
    /\ dDec' = DTMFEventZero
    /\ dErr' = ErrNil
    /\ UNCHANGED <<connVars, rdVars, wrVars, sVars, pVars, tVars, cVars>>

\* a telephone-event payload arrives
ReceiveDTMF(payload) ==
    /\ dOp' = "receive"
    /\ dPayload' = payload
    /\ dFrom' = "wire"
    /\ dChar' = ""
    /\ dEvents' = <<>>
    /\ dEv' = DTMFEventZero
    /\ dDec' = DTMFEventZero
    /\ dErr' = ErrNil
    /\ UNCHANGED <<connVars, rdVars, wrVars, sVars, pVars, tVars, cVars>>

\* err := DTMFDecode(payload, &d) on a fresh DTMFEvent
CallDTMFDecode ==
    /\ dOp \in {"DTMFEncode", "receive"}
    /\ dOp' = "DTMFDecode"
    /\ dDec' = DTMFDecode(dPayload, DTMFEventZero).d
    /\ dErr' = DTMFDecode(dPayload, DTMFEventZero).err
    /\ UNCHANGED <<dChar, dEvents, dEv, dPayload, dFrom>>
    /\ UNCHANGED <<connVars, rdVars, wrVars, sVars, pVars, tVars, cVars>>

NextDTMF ==
    \/ \E c \in DTMFChars : CallRTPDTMFEncode(c)
    \/ \E d \in DTMFEvents : CallDTMFEncode(d)
    \/ \E pl \in DTMFWirePayloads : ReceiveDTMF(pl)
    \/ CallDTMFDecode

\* ------------------------------------------------- Close in every state
\* A session whose sockets were never opened (a MediaSession that did not go
\* through createListeners), or one NewMediaSession returned.
CloseInit ==
    /\ rtpConn \in {"nil", "open"}
    /\ rtcpConn = rtpConn
    /\ nClose = 0

\* Reads and writes go on around the Close calls when the session has sockets.
HasSockets == rtpConn # "nil"

NextClose ==
    \/ CloseCall
    \/ HasSockets /\ ReadCall(HeaderLen + MaxPayload)
    \/ HasSockets /\ \E ss \in ReaderSSRCs : ReadReturnData(Datagram(0, 7, ss, <<1>>))
    \/ ReadReturnClosed
    \/ HasSockets /\ \E o \in WriteOutcomes : Write(<<1>>, o)

NextWriter ==
    \/ \E pl \in WriterPayloads, o \in WriteOutcomes : Write(pl, o)
    \/ \E pl \in WriterPayloads, t \in WriterTicks, m \in BOOLEAN, o \in WriteOutcomes :
          WriteSamples(pl, t, m, o)
    \/ WriterClose

\* ------------------------------------------------------ session actions
FormatIds == {"0", "8", "3"}
RemoteAddrs == {UDPAddr("ip1", 5000), UDPAddr("ip1", 6000), UDPAddr("ip2", 6000)}
\* A received SDP that parses: connection address, audio port, format list.
SDPs == {[ok |-> TRUE, ip |-> a.ip, port |-> a.port, formats |-> f] :
            a \in RemoteAddrs, f \in SeqsUpTo(FormatIds, MaxFmts)}
\* One that does not (no audio media, no connection line, malformed).
BadSDP == [ok |-> FALSE, ip |-> Nil, port |-> 0, formats |-> <<>>]

Alive == sErr # ErrPanic

\* the application calls SetRemoteAddr
DoSetRemoteAddr(raddr) ==
    /\ Alive
    /\ Raddr' = SetRemoteAddr(raddr)[1]
    /\ rtcpRaddr' = SetRemoteAddr(raddr)[2]
    /\ sOp' = "SetRemoteAddr"
    /\ sErr' = ErrNil
    /\ UNCHANGED <<Formats, sLocal, sRemote, sCalls, connVars, rdVars, wrVars, xVars, pVars>>

\* MediaSession.RemoteSDP (media.go:88-110)
RemoteSDP(sd) ==
    /\ Alive
    /\ sCalls < MaxNegotiations
    /\ sCalls' = sCalls + 1
    /\ sOp' = "RemoteSDP"
    /\ sLocal' = Formats
    /\ sRemote' = sd.formats
    /\ IF ~sd.ok
       THEN /\ sErr' = ErrParseSDP
            /\ UNCHANGED <<Formats, Raddr, rtcpRaddr>>
       ELSE /\ Raddr' = SetRemoteAddr(UDPAddr(sd.ip, sd.port))[1]
            /\ rtcpRaddr' = SetRemoteAddr(UDPAddr(sd.ip, sd.port))[2]
            /\ Formats' = updateFormats(Formats, sd.formats)
            /\ sErr' = ErrNil
    /\ UNCHANGED <<connVars, rdVars, wrVars, xVars, pVars>>

\* MediaSession.UpdateDestinationSDP (media.go:256-279)
UpdateDestinationSDP(sd) ==
    /\ Alive
    /\ sCalls < MaxNegotiations
    /\ sCalls' = sCalls + 1
    /\ sOp' = "UpdateDestinationSDP"
    /\ sLocal' = Formats
    /\ sRemote' = sd.formats
    /\ IF ~sd.ok
       THEN /\ sErr' = ErrParseSDP
            /\ UNCHANGED <<Formats, Raddr, rtcpRaddr>>
       ELSE IF Raddr = NilAddr
       THEN /\ sErr' = ErrPanic
            /\ UNCHANGED <<Formats, Raddr, rtcpRaddr>>
       ELSE /\ Raddr' = UDPAddr(sd.ip, sd.port)
            /\ Formats' = updateFormats(Formats, sd.formats)
            /\ sErr' = ErrNil
            /\ UNCHANGED rtcpRaddr
    /\ UNCHANGED <<connVars, rdVars, wrVars, xVars, pVars>>

NextSession ==
    \/ \E a \in RemoteAddrs : DoSetRemoteAddr(a)
    \/ \E sd \in SDPs \cup {BadSDP} : RemoteSDP(sd)
    \/ \E sd \in SDPs \cup {BadSDP} : UpdateDestinationSDP(sd)

\* --------------------------------------------------------- port actions
SessIds == 1..NSess
\* the ports the OS hands out for port 0, and the port of a fixed hint
EphemeralPorts == {RangeEnd + 3}
FixedPorts == {RangeEnd + 6}
RangePorts == RangeStart..(RangeEnd - 1)
\* the ports another process may hold
ExtPorts == RangePorts \cup {RangeEnd}
MaxBindRetries == 10

InUse == ext \cup Held(sess)

\* the free pairs port, port + 1 of the range among the ports a scan in steps
\* of 2 from first would try if it went round the whole range
FreePairs(inuse, first) ==
    {q \in RangePorts : q \notin inuse /\ (q + 1) \notin inuse /\ (q - first) % 2 = 0}

\* Ports bs get bound: a construction in progress that watched a free pair of
\* the range (cand, cand + 1) stops watching it when bs touches the pair.
Taken(ss, bs) ==
    [i \in DOMAIN ss |->
        [ss[i] EXCEPT !.cand = IF @ \in bs \/ (@ + 1) \in bs THEN 0 ELSE @]]

PortsOf(se) ==
    (IF se.rtpConn \in {"open", "closed"} THEN {se.rtpPort} ELSE {})
        \cup (IF se.rtcpConn = "open" THEN {se.rtcpPort} ELSE {})

\* NewMediaSession returns the error and no session (media.go:61-63).
Failed(se, e) ==
    [SessionZero EXCEPT !.pc = "failed", !.hint = se.hint, !.err = e, !.cand = se.cand]

PortsIdle ==
    /\ portRange = <<0, 0>>
    /\ rtpPortOffset = 0
    /\ sess = [i \in SessIds |-> SessionZero]
    /\ ext = {}

PortsInit ==
    /\ portRange \in {<<0, 0>>, <<RangeStart, RangeEnd>>}
    /\ rtpPortOffset = 0
    /\ sess = [i \in SessIds |-> SessionZero]
    /\ ext = {}

\* NewMediaSession(laddr) on a fresh session object (media.go:50-66), up to the
\* first bind attempt of createListeners (media.go:140-149, 170). A ranged
\* allocation watches the pair q, q + 1, free at the call (q = 0: none).
NewMediaSession(i, hint, q) ==
    /\ sess[i].pc \in {"none", "closed", "failed"}
    /\ q \in IF hint = 0 /\ Ranged(portRange)
              THEN FreePairs(InUse, portRange[1] + rtpPortOffset) \cup {0} ELSE {0}
    /\ LET s0 == [SessionZero EXCEPT !.hint = hint]
       IN  IF hint # 0
           THEN LET s1 == listenRTPandRTCP(s0, InUse, hint)
                IN  sess' = Taken([sess EXCEPT ![i] =
                                     IF s1.err = ErrNil THEN [s1 EXCEPT !.pc = "open"]
                                     ELSE Failed(s1, s1.err)],
                                  PortsOf(s1))
           ELSE IF Ranged(portRange)
           THEN sess' = [sess EXCEPT ![i] =
                            [s0 EXCEPT !.pc = "scan",
                                       !.port = portRange[1] + rtpPortOffset,
                                       !.cand = q]]
           ELSE sess' = [sess EXCEPT ![i] = [s0 EXCEPT !.pc = "retry"]]
    /\ UNCHANGED <<portRange, rtpPortOffset, ext, connVars, rdVars, wrVars, xVars, sVars>>

\* One turn of the scan of the range (media.go:151-160).
ScanStep(i) ==
    /\ sess[i].pc = "scan"
    /\ LET se == sess[i]
       IN  IF se.port < portRange[2]
           THEN LET s1 == listenRTPandRTCP(se, InUse, se.port)
                IN  sess' = Taken([sess EXCEPT ![i] =
                                     IF s1.err = ErrNil
                                     THEN [s1 EXCEPT !.pc = "store", !.cand = 0]
                                     ELSE [s1 EXCEPT !.port = se.port + 2]],
                                  PortsOf(s1))
           ELSE sess' = [sess EXCEPT ![i] =
                            IF se.err # ErrNil
                            THEN Failed(se, ErrNoPorts)
                            ELSE [se EXCEPT !.pc = "store"]]
    /\ UNCHANGED <<portRange, rtpPortOffset, ext, connVars, rdVars, wrVars, xVars, sVars>>

\* The offset is stored and NewMediaSession returns the session (media.go:161-164).
StoreOffset(i) ==
    /\ sess[i].pc = "store"
    /\ rtpPortOffset' = NextOffset(sess[i].port, portRange)
    /\ sess' = [sess EXCEPT ![i].pc = "open"]
    /\ UNCHANGED <<portRange, ext, connVars, rdVars, wrVars, xVars, sVars>>

\* One turn of the bounded retry on an OS-chosen port (media.go:170-178): the
\* OS hands out any free ephemeral port, or refuses when none is free.
RetryStep(i, osPort) ==
    /\ sess[i].pc = "retry"
    /\ osPort \in (EphemeralPorts \ InUse) \cup
                  (IF EphemeralPorts \subseteq InUse THEN {0} ELSE {})
    /\ LET se == sess[i]
           s1 == listenRTPandRTCP(se, InUse, osPort)
       IN  sess' = Taken([sess EXCEPT ![i] =
                            IF s1.err = ErrNil THEN [s1 EXCEPT !.pc = "open"]
                            ELSE IF se.retries + 1 < MaxBindRetries
                            THEN [s1 EXCEPT !.retries = se.retries + 1]
                            ELSE Failed(s1, s1.err)],
                         PortsOf(s1))
    /\ UNCHANGED <<portRange, rtpPortOffset, ext, connVars, rdVars, wrVars, xVars, sVars>>

\* MediaSession.Close on a constructed session (media.go:246-254).
CloseSession(i) ==
    /\ sess[i].pc \in {"open", "closed"}
    /\ sess' = [sess EXCEPT ![i].pc = "closed",
                            ![i].rtcpConn = Close(@),
                            ![i].rtpConn = Close(@)]
    /\ UNCHANGED <<portRange, rtpPortOffset, ext, connVars, rdVars, wrVars, xVars, sVars>>

\* Another process binds a port, or lets one go.
ExtBind(q) ==
    /\ q \notin InUse
    /\ Cardinality(ext) < MaxExt
    /\ ext' = ext \cup {q}
    /\ sess' = Taken(sess, {q})
    /\ UNCHANGED <<portRange, rtpPortOffset, connVars, rdVars, wrVars, xVars, sVars>>

ExtRelease(q) ==
    /\ q \in ext
    /\ ext' = ext \ {q}
    /\ UNCHANGED <<portRange, rtpPortOffset, sess, connVars, rdVars, wrVars, xVars, sVars>>

NextPorts ==
    \/ \E i \in SessIds, h \in {0} \cup FixedPorts, q \in {0} \cup RangePorts :
          NewMediaSession(i, h, q)
    \/ \E i \in SessIds : ScanStep(i)
    \/ \E i \in SessIds : StoreOffset(i)
    \/ \E i \in SessIds, q \in EphemeralPorts \cup {0} : RetryStep(i, q)
    \/ \E i \in SessIds : CloseSession(i)
    \/ \E q \in ExtPorts : ExtBind(q)
    \/ \E q \in ExtPorts : ExtRelease(q)

\* ------------------------------------------------------ specifications
RdIdle ==
    /\ r = NewRTPReader(0)
    /\ rd_pc = "idle"
    /\ rd_blen = 0
    /\ rdN = 0
    /\ rdErr = ErrNil
    /\ rdSock = "none"
    /\ nReads = 0
    /\ delivered = <<>>
    /\ arrived = <<>>
    /\ onRTPCalls = 0
    /\ rdWarn = {}
    /\ rdDg = NoDatagram

ConnOpen == rtpConn = "open" /\ rtcpConn = "open"

CloseIdle == nClose = 0

ExtrasIdle == TrackerIdle /\ CloseIdle /\ DTMFIdle

InitReader == RdInit /\ WrIdle /\ SessInit /\ PortsIdle /\ ExtrasIdle
InitWriter == WrInit /\ RdIdle /\ SessInit /\ PortsIdle /\ ExtrasIdle
InitSession == SessInit /\ ConnOpen /\ RdIdle /\ WrIdle /\ PortsIdle /\ ExtrasIdle
InitPorts == PortsInit /\ ConnOpen /\ RdIdle /\ WrIdle /\ SessInit /\ ExtrasIdle
InitTracker ==
    TrackerIdle /\ CloseIdle /\ DTMFIdle /\ ConnOpen /\ RdIdle /\ WrIdle /\ SessInit /\ PortsIdle
InitClose == CloseInit /\ TrackerIdle /\ DTMFIdle /\ RdIdle /\ WrIdle /\ SessInit /\ PortsIdle
InitDTMF == ExtrasIdle /\ ConnOpen /\ RdIdle /\ WrIdle /\ SessInit /\ PortsIdle

\* a reader on a constructed session
SpecReader == InitReader /\ [][NextReader]_vars

\* Go's runtime wakes a ReadFrom blocked on a socket that is closed.
FairSpecReader == SpecReader /\ WF_vars(ReadReturnClosed)

\* a reader of packets of several sources and sequence numbers
SpecReaderSeq == InitReader /\ [][NextReaderSeq]_vars

\* the extended sequence tracker on its own
SpecTracker == InitTracker /\ [][NextTracker]_vars

\* Close calls on a session with or without sockets, in use or not
SpecClose == InitClose /\ [][NextClose]_vars

\* the DTMF codec's functions applied to events, runes and payloads
SpecDTMF == InitDTMF /\ [][NextDTMF]_vars

\* a writer on a constructed session
SpecWriter == InitWriter /\ [][NextWriter]_vars

\* the negotiation calls on a constructed session
SpecSession == InitSession /\ [][NextSession]_vars

\* constructions and closes of sessions sharing the port range
SpecPorts == InitPorts /\ [][NextPorts]_vars

\* ------------------------------------------------------- reader claims
\* Bytes still owed to the caller from a partially drained payload.
Pending == IF r.unread > 0 THEN r.unreadPayload ELSE <<>>

\* C1: between Read calls, the bytes returned so far followed by the pending
\* bytes are exactly the payloads of the packets Read accepted, in order: no
\* byte is dropped and none is duplicated, whatever the buffer sizes.
C1_PayloadStreamPreserved ==
    rd_pc = "idle" => delivered \o Pending = arrived

\* C9: a Read blocked in the socket read of a closed session returns, and a Read
\* that met the closed socket returns 0 bytes with io.EOF.
C9_ClosedReadGivesEOF ==
    /\ [](rdSock = "closed" => rdN = 0 /\ rdErr = ErrEOF)
    /\ (rd_pc = "blocked" /\ rtpConn = "closed")
          ~> (rd_pc = "idle" /\ rdSock = "closed" /\ rdN = 0 /\ rdErr = ErrEOF)

C9_Witness ==
    /\ rd_pc = "idle"
    /\ rtpConn = "closed"
    /\ rdSock = "closed"
    /\ rdErr = ErrEOF
    /\ nReads > 1

\* C10: a Read that fails on the payload type returns 0 bytes and changes
\* neither the reader's fields (last SSRC, tracker, last-seen header, pending
\* payload) nor the number of OnRTP invocations.
C10_MismatchLeavesState ==
    [][(nReads' = nReads + 1 /\ rdErr' = ErrPayloadType)
          => (rdN' = 0 /\ r' = r /\ onRTPCalls' = onRTPCalls /\ delivered' = delivered)]_vars

C10_Witness ==
    /\ rdErr = ErrPayloadType
    /\ rdSock = "data"
    /\ r.lastSSRC # 0
    /\ r.PacketHeader.pt = r.PayloadType
    /\ onRTPCalls > 0

\* a Read returns in this step having accepted a packet from the socket
Accepts == nReads' = nReads + 1 /\ rdSock' = "data" /\ rdErr' = ErrNil

\* C11: a reader that has accepted packets and accepts one of another SSRC
\* restarts tracking from it (no wraps, last-seen = its sequence number) and
\* logs no warning, whatever its sequence number; a packet of the source
\* tracked is measured against that source's last packet: the one that follows
\* it passes without a warning, any other is reported out of order.
C11_SourceChangeReinits ==
    [][(Accepts /\ onRTPCalls > 0) =>
          /\ rdDg'.ssrc # r.lastSSRC =>
                /\ r'.Seq = [seqNum |-> rdDg'.seq, wrapArroundCount |-> 0]
                /\ r'.lastSSRC = rdDg'.ssrc
                /\ rdWarn' = {}
          /\ (rdDg'.ssrc = r.lastSSRC /\ r.Seq.seqNum = r.PacketHeader.seq) =>
                (rdWarn' = {} <=> rdDg'.seq = (r.PacketHeader.seq + 1) % SeqMod)]_vars

\* source 1 at 65535, then source 2 at 1 and at 2
C11_Witness ==
    /\ nReads = 3
    /\ onRTPCalls = 3
    /\ rdErr = ErrNil
    /\ rdWarn = {}
    /\ r.lastSSRC = 2
    /\ r.Seq = [seqNum |-> 2, wrapArroundCount |-> 0]
    /\ rdDg.seq = 2

\* C12: a packet of the expected payload type read into a buffer that holds it
\* is returned whole with no error whatever its sequence number, and the reader
\* is ready for the next Read.
C12_AnomaliesNeverAbort ==
    [][(nReads' = nReads + 1 /\ rdSock' = "data" /\ rd_blen >= WireLen(rdDg')
            /\ rdDg'.pt = r.PayloadType)
          => /\ rdErr' = ErrNil
             /\ rdN' = Len(rdDg'.payload)
             /\ delivered' = delivered \o rdDg'.payload
             /\ onRTPCalls' = onRTPCalls + 1
             /\ rd_pc' = "idle"
             /\ r'.unread = 0]_vars

\* a packet the tracker reported as a regression was returned
C12_Witness ==
    /\ nReads = 3
    /\ onRTPCalls = 3
    /\ rdErr = ErrNil
    /\ rdN = 1
    /\ "SequenceRegression" \in rdWarn
    /\ WarnOutOfOrder \in rdWarn
    /\ Len(delivered) = 3

\* C21: the first packet a reader accepts starts the tracking from that packet
\* (no wraps, last-seen = its sequence number) and logs no warning, whatever
\* SSRC it carries, 0 included.
C21_FirstPacketInits ==
    [][(Accepts /\ onRTPCalls = 0) =>
          /\ r'.Seq = [seqNum |-> rdDg'.seq, wrapArroundCount |-> 0]
          /\ r'.lastSSRC = rdDg'.ssrc
          /\ rdWarn' = {}]_vars

\* C15: Close can be called in every state (no sockets, sockets open, sockets
\* closed, a Read blocked in the socket, writes before and after); a Close
\* leaves no socket open, leaves a session without sockets as it is, changes
\* nothing when it is not the first, and touches neither reader nor writer.
C15_CloseIdempotentTotal ==
    /\ [](nClose < MaxCloses => ENABLED CloseCall)
    /\ [](nClose >= 1 => (rtpConn # "open" /\ rtcpConn # "open"))
    /\ [][nClose' = nClose + 1 =>
             /\ rtpConn' = (IF rtpConn = "nil" THEN "nil" ELSE "closed")
             /\ rtcpConn' = (IF rtcpConn = "nil" THEN "nil" ELSE "closed")
             /\ nClose >= 1 => (rtpConn' = rtpConn /\ rtcpConn' = rtcpConn)
             /\ UNCHANGED <<rdVars, wrVars>>]_vars

\* a second Close while a Read is blocked in the socket, after a write
C15_Witness ==
    /\ nClose = 2
    /\ rtpConn = "closed"
    /\ rtcpConn = "closed"
    /\ rd_pc = "blocked"
    /\ Len(sent) > 0

\* Close twice on a session that never had sockets
C15_WitnessNoSockets ==
    /\ nClose = 2
    /\ rtpConn = "nil"
    /\ rtcpConn = "nil"

\* ------------------------------------------------------ tracker claims
\* b is a small step forward of a, modulo 2^16
Forward(a, b) == (b - a) % SeqMod \in 1..(SeqMod \div 2 - 1)

AllForward == \A j \in 1..(Len(trkRaw) - 1) : Forward(trkRaw[j], trkRaw[j + 1])

\* the wraps among the first k raw values
Wraps(k) == Cardinality({j \in 1..(k - 1) : trkRaw[j + 1] < trkRaw[j]})

\* C13: for raw values that start with InitSeq and go forward by small steps,
\* the extended value after each UpdateSeq is wraps * 65536 + raw and greater
\* than the one before; a step of exactly 1 (65535 -> 0 included) raises it by
\* exactly 1, which the reader does not report.
C13_ExtendedMonotonic ==
    AllForward =>
        \A k \in 1..Len(trkRaw) :
            /\ trkExt[k] = Wraps(k) * SeqMod + trkRaw[k]
            /\ k > 1 => trkExt[k] > trkExt[k - 1]
            /\ (k > 1 /\ trkRaw[k] = (trkRaw[k - 1] + 1) % SeqMod) =>
                  (trkExt[k] = trkExt[k - 1] + 1 /\ ~OutOfOrder(trkExt[k - 1], trkExt[k]))

\* 65534, 65535, 0, 1: in order across the wrap
C13_Witness ==
    /\ AllForward
    /\ trkRaw = <<SeqMod - 2, SeqMod - 1, 0, 1>>
    /\ trkExt[4] = SeqMod + 1

\* -------------------------------------------------------- DTMF claims
ValidDTMFEvent(d) ==
    /\ d.Event \in 0..15
    /\ d.Volume \in 0..63
    /\ d.Duration \in 0..(SeqMod - 1)
    /\ d.EndOfEvent \in BOOLEAN

\* C17: decoding the 4 bytes DTMFEncode made of a valid event (event 0..15,
\* volume 0..63, duration 0..65535, either flag) succeeds and gives an event
\* equal to it in all four fields.
C17_DTMFRoundTrip ==
    (dOp = "DTMFDecode" /\ dFrom = "DTMFEncode" /\ ValidDTMFEvent(dEv)) =>
        /\ Len(dPayload) = 4
        /\ dErr = ErrNil
        /\ dDec.Event = dEv.Event
        /\ dDec.EndOfEvent = dEv.EndOfEvent
        /\ dDec.Volume = dEv.Volume
        /\ dDec.Duration = dEv.Duration

\* the largest valid event, end flag set, went through
C17_Witness ==
    /\ dOp = "DTMFDecode"
    /\ dFrom = "DTMFEncode"
    /\ dEv = DTMFEvent(15, TRUE, 63, SeqMod - 1)
    /\ dPayload = <<15, 191, 255, 255>>
    /\ dDec = dEv

\* the event code RFC 4733 gives a digit
TelephoneEvent(char) ==
    CASE char = "*" -> 10
      [] char = "#" -> 11
      [] char = "A" -> 12
      [] char = "B" -> 13
      [] char = "C" -> 14
      [] char = "D" -> 15
      [] char = "0" -> 0
      [] char = "1" -> 1
      [] char = "2" -> 2
      [] char = "3" -> 3
      [] char = "4" -> 4
      [] char = "5" -> 5
      [] char = "6" -> 6
      [] char = "7" -> 7
      [] char = "8" -> 8
      [] char = "9" -> 9

TableChars == {"0", "1", "2", "3", "4", "5", "6", "7", "8", "9", "*", "#", "A", "B", "C", "D"}

\* C18: for a digit of the table RTPDTMFEncode returns 7 events: four with
\* EndOfEvent false and durations 160, 320, 480, 640, then three with
\* EndOfEvent true and duration 800, all with the digit's event code.
C18_EncodeSevenEvents ==
    (dOp = "RTPDTMFEncode" /\ dChar \in TableChars) =>
        /\ Len(dEvents) = 7
        /\ \A i \in 1..4 : ~dEvents[i].EndOfEvent /\ dEvents[i].Duration = 160 * i
        /\ \A i \in 5..7 : dEvents[i].EndOfEvent /\ dEvents[i].Duration = 800
        /\ \A i \in 1..7 : dEvents[i].Event = TelephoneEvent(dChar)

C18_Witness ==
    /\ dOp = "RTPDTMFEncode"
    /\ dChar = "5"
    /\ dEvents[1] = DTMFEvent(5, FALSE, 10, 160)
    /\ dEvents[7] = DTMFEvent(5, TRUE, 10, 800)

\* C19: for a rune outside the table RTPDTMFEncode returns no event sequence.
C19_UnknownDigitFails ==
    (dOp = "RTPDTMFEncode" /\ dChar \notin TableChars) => dEvents = <<>>

\* ------------------------------------------------------- writer claims
RECURSIVE U32Times(_, _)
\* k * c modulo 2^32
U32Times(k, c) == IF k = 0 THEN U32Zero ELSE U32Add(U32Times(k - 1, c), c)

OnlyWrite == \A k \in 1..Len(sent) : sent[k].via = "Write"

\* C2: when every packet so far was emitted by Write, the k-th packet
\* (k = 0..N-1) carries sequence number (initial + k) mod 2^16 and timestamp
\* (0 + k*c) mod 2^32, c being the configured ClockRateTimestamp.
C2_WriteSequence ==
    OnlyWrite =>
        \A k \in 1..Len(sent) :
            /\ sent[k].seq = (wInit + (k - 1)) % SeqMod
            /\ sent[k].ts = U32Times(k - 1, w.ClockRateTimestamp)

\* three packets by Write, the sequence number wrapping after the first or second
C2_Witness ==
    /\ OnlyWrite
    /\ Len(sent) >= 3
    /\ sent[3].seq < sent[1].seq
    /\ sent[2].ts = w.ClockRateTimestamp
    /\ w.ClockRateTimestamp = U32(160)

\* C14: a packet emitted by Write has its marker bit set exactly when it is
\* the first packet the writer emitted.
C14_MarkerOnlyOnFirst ==
    \A k \in 1..Len(sent) :
        sent[k].via = "Write" => (sent[k].marker <=> k = 1)

\* a call of Write or WriteSamples returns in this step
Wrote == Len(sent') = Len(sent) + 1

\* C20: every WriteSamples call builds the packet with the current sequence
\* number and timestamp, invokes OnRTP (if set) with it before LastPacket, the
\* timestamp cursor and the wire change, records it as LastPacket, advances the
\* timestamp cursor by clockRateTimestamp and writes to the socket once; it
\* returns the payload length, with nil when the socket took the whole
\* datagram, io.ErrShortWrite for a short write and the socket's error
\* otherwise, and in each case the sequence cursor has moved on by one.
C20_WriteSamplesSteps ==
    [][Wrote =>
          LET pkt == w'.LastPacket
          IN  /\ pkt.seq = w.seq.seqNum
              /\ pkt.ts = w.nextTimestamp
              /\ pkt.payload = wCall'.payload
              /\ pkt.marker = wCall'.marker
              /\ pkt.ssrc = w.SSRC
              /\ sent'[Len(sent')].seq = pkt.seq
              /\ IF w.OnRTP # Nil
                 THEN /\ wOnRTP' = wOnRTP + 1
                      /\ wCall'.onRTP = <<[pkt |-> pkt, LastPacket |-> w.LastPacket,
                                           nextTimestamp |-> w.nextTimestamp,
                                           wire |-> Len(wire)]>>
                 ELSE wOnRTP' = wOnRTP /\ wCall'.onRTP = <<>>
              /\ w'.nextTimestamp = U32Add(w.nextTimestamp, wCall'.clockRateTimestamp)
              /\ w'.seq.seqNum = (w.seq.seqNum + 1) % SeqMod
              /\ wCall'.writes = 1
              /\ wN' = Len(wCall'.payload)
              /\ wErr' = (CASE wCall'.outcome = "ok" -> ErrNil
                            [] wCall'.outcome = "short" -> ErrShortWrite
                            [] wCall'.outcome = "err" -> ErrWrite)
              /\ wire' = IF wCall'.outcome = "ok" THEN Append(wire, pkt.seq) ELSE wire]_vars

\* a short write, then a failed write, then a packet that went out: the third
\* packet carries the sequence number two past the first
C20_Witness ==
    /\ Len(sent) = 3
    /\ Len(wire) = 1
    /\ wErr = ErrNil
    /\ wN = 1
    /\ wOnRTP = 3
    /\ wire[1] = (sent[1].seq + 2) % SeqMod
    /\ w.nextTimestamp = U32(320)
    /\ wCall.onRTP[1].LastPacket.seq = sent[2].seq

\* ------------------------------------------------------ session claims
Negotiated == sOp \in {"RemoteSDP", "UpdateDestinationSDP"}

InSeq(x, q) == \E i \in 1..Len(q) : q[i] = x

\* the formats of remote that local holds too, in remote's order, each once
RECURSIVE IntersectOnce(_, _, _)
IntersectOnce(local, remote, seen) ==
    IF remote = <<>> THEN <<>>
    ELSE LET x == Head(remote)
         IN  IF InSeq(x, local) /\ x \notin seen
             THEN <<x>> \o IntersectOnce(local, Tail(remote), seen \cup {x})
             ELSE IntersectOnce(local, Tail(remote), seen)

NoCommon(local, remote) == ~\E i \in 1..Len(remote) : InSeq(remote[i], local)

\* C3: after RemoteSDP with an SDP that parses, the session's formats are the
\* intersection of the local list it had and the remote list, in the remote
\* list's order, each common format once.
C3_FormatsAreIntersection ==
    (sOp = "RemoteSDP" /\ sErr = ErrNil) =>
        Formats = IntersectOnce(sLocal, sRemote, {})

\* C4: RemoteSDP and UpdateDestinationSDP given an SDP that parses and shares no
\* format with the local list return the NoCommonFormat error.
C4_DisjointFails ==
    (Negotiated /\ sErr # ErrParseSDP /\ NoCommon(sLocal, sRemote)) =>
        sErr = ErrNoCommonFormat

\* C5: when the most recent RemoteSDP / UpdateDestinationSDP call returned
\* success, the session's format list is not empty.
C5_FormatsNonEmpty ==
    (Negotiated /\ sErr = ErrNil) => Len(Formats) > 0

\* C6: once a remote address is set, the RTCP address has the remote RTP
\* address's IP and its port + 1.
C6_RtcpFollowsRtp ==
    Raddr # NilAddr =>
        (rtcpRaddr.ip = Raddr.ip /\ rtcpRaddr.port = Raddr.port + 1)

\* C22: every format of the session is one of those NewMediaSession offered,
\* whatever RemoteSDP and UpdateDestinationSDP calls were made.
C22_FormatsWithinLocalOffer ==
    \A i \in 1..Len(Formats) : InSeq(Formats[i], LocalFormats)

\* --------------------------------------------------------- port claims
\* C7: with a range configured, a session constructed with local port 0 has its
\* RTP port p inside [RTPPortStart, RTPPortEnd) and holds an RTCP socket bound
\* at p + 1.
C7_RangedPortInRange ==
    \A i \in SessIds :
        (sess[i].pc = "open" /\ sess[i].hint = 0 /\ Ranged(portRange)) =>
            /\ portRange[1] <= sess[i].Laddr
            /\ sess[i].Laddr < portRange[2]
            /\ sess[i].rtpConn = "open"
            /\ sess[i].rtpPort = sess[i].Laddr
            /\ sess[i].rtcpConn = "open"
            /\ sess[i].rtcpPort = sess[i].Laddr + 1

\* two sessions allocated from the range, the offset having rotated back to 0
C7_Witness ==
    /\ Ranged(portRange)
    /\ rtpPortOffset = 0
    /\ \A i \in SessIds : sess[i].pc = "open" /\ sess[i].hint = 0
    /\ \E i \in SessIds : sess[i].Laddr = RangeStart + 2

\* C16: a session NewMediaSession returned (fixed port, port of the range or
\* port chosen by the OS, after any number of refused binds) has its RTCP
\* socket on the RTP socket's port + 1 and the RTP socket's port in Laddr.
C16_RtcpPortIsRtpPlusOne ==
    \A i \in SessIds :
        sess[i].pc \in {"open", "closed"} =>
            /\ sess[i].rtpPort # 0
            /\ sess[i].rtcpPort = sess[i].rtpPort + 1
            /\ sess[i].Laddr = sess[i].rtpPort
            /\ sess[i].hint # 0 => sess[i].rtpPort = sess[i].hint

\* one session on an OS-chosen port after a refused bind, the other
\* constructed on a fixed port
C16_Witness ==
    \E i, j \in SessIds :
        /\ sess[i].pc = "open" /\ sess[i].hint = 0 /\ sess[i].retries > 0
        /\ sess[i].Laddr \in EphemeralPorts
        /\ sess[j].pc \in {"open", "closed"} /\ sess[j].hint # 0
        /\ sess[j].rtcpPort = sess[j].hint + 1

\* C8: a ranged construction reports that no port is available only when no
\* pair port, port + 1 of the range stayed free for the whole call (here: no
\* pair among those a scan in steps of 2 could try).
C8_ExhaustionOnlyWhenNoFreePair ==
    \A i \in SessIds :
        (sess[i].pc = "failed" /\ sess[i].err = ErrNoPorts) => sess[i].cand = 0

====
